---- MODULE Spec2Model ----
(***************************************************************************)
(* build_and_export_duplex.py: one run of the script inside the host 3D    *)
(* application.  The state is the part of the host's data the script       *)
(* reads and writes (collections, objects, materials, world, constraints,  *)
(* selection, active object, scene camera, timeline markers), the export   *)
(* directory on disk, what was printed, and the position of the run.       *)
(*                                                                         *)
(* Line 124 of the file (root = scene.collection) is dedented to column 0, *)
(* so the file as it stands is rejected by the Python compiler before any  *)
(* statement executes (IndentationError at line 125).  The model reads     *)
(* line 124 as the statement of build_scene's body that its neighbours     *)
(* show it to be; every behaviour below is a behaviour of that script.     *)
(***************************************************************************)
EXTENDS Naturals, Sequences, FiniteSets, TLC

VARIABLES
    pc,           \* the statement the run is at
    pre,          \* what the file and the disk held before the run (never changes)
    collections,  \* bpy.data.collections: name -> "linked" | "unlinked" | "hidden"
    objects,      \* bpy.data.objects: records [name, type, col, hide]
    created,      \* names of the objects this run has created
    materials,    \* bpy.data.materials (names)
    worlds,       \* bpy.data.worlds (names)
    sceneWorld,   \* scene.world
    constraints,  \* object constraints, in creation order: [owner, type, target]
    pathDuration, \* curve.data.path_duration, for the curves that have one set
    animated,     \* constraints (by owner) the path_animate operator has keyed
    active,       \* view_layer.objects.active
    sceneCamera,  \* scene.camera
    selected,     \* names of the selected objects
    markers,      \* scene.timeline_markers, in order
    render,       \* the render settings build_scene sets
    loc,          \* build_scene's locals: walk_curve, aero_curve, cam_walk, cam_aero
    dirState,     \* the path //exports/: "absent" | "dir" | "file"
    files,        \* names of the files in the export directory
    zipEntries,   \* arcnames held by Duplex_House_FBX.zip
    fbxContent,   \* names of the objects in the Duplex_House.fbx this run wrote
    readmeLists,  \* the file names the README this run wrote lists
    written,      \* names of the files this run has written
    out,          \* what the run has printed, in order
    log           \* the steps the run has performed, in order

vars == <<pc, pre, collections, objects, created, materials, worlds, sceneWorld,
          constraints, pathDuration, animated, active, sceneCamera, selected,
          markers, render, loc, dirState, files, zipEntries, fbxContent,
          readmeLists, written, out, log>>

sceneVars == <<collections, objects, created, materials, worlds, sceneWorld,
               constraints, pathDuration, animated, active, sceneCamera,
               selected, markers, render, loc>>

diskVars == <<dirState, files, zipEntries, fbxContent, readmeLists, written>>

----------------------------------------------------------------------------
(* Names the script uses.                                                  *)

FULL_FBX == "Duplex_House.fbx"
LITE_FBX == "Duplex_House_Lite.fbx"
ZIP_PATH == "Duplex_House_FBX.zip"
README_PATH == "README_Import.txt"

CollectionNames ==
    <<"Ground_Floor", "First_Floor", "Second_Floor", "Exterior_Facade",
      "Furniture", "Landscape", "Cameras_Walkthrough", "Cameras_Aerial",
      "Renders">>

MaterialNames ==
    {"Wall_Paint", "Glass_Simple", "Stone_Cladding", "Wood", "Grass", "Driveway"}

\* the collections the header's geometry (plot, floors, facade, furniture,
\* trees) belongs in
GeometryCollections ==
    {"Ground_Floor", "First_Floor", "Second_Floor", "Exterior_Facade",
     "Furniture", "Landscape"}

WalkFrames == 600
AeroFrames == 450
FrameEnd == 600
Fps == 30

MSG_BUILT == "Scene built."
MSG_EXPORT == "Export complete"
MSG_DONE == "Done"

----------------------------------------------------------------------------
(* What the file and the disk may hold before the run.                     *)

MaxPreObjects == 2

\* objects a file may already hold: the host's start-up cube and camera, an
\* object hidden in the viewport, and the camera an earlier run left behind
PreObjectPool ==
    { [name |-> "Cube", type |-> "MESH", col |-> "Scene", hide |-> FALSE],
      [name |-> "Camera", type |-> "CAMERA", col |-> "Scene", hide |-> FALSE],
      [name |-> "Blockout", type |-> "MESH", col |-> "Scene", hide |-> TRUE],
      [name |-> "Camera_Walkthrough", type |-> "CAMERA", col |-> "Scene",
       hide |-> FALSE] }

PreObjectSets == {S \in SUBSET PreObjectPool : Cardinality(S) <= MaxPreObjects}

\* a collection of the script's names may already exist: linked into the
\* scene, linked and hidden in the viewport, or not linked into this scene
PreCollectionStates == {"absent", "linked", "hidden", "unlinked"}

PreFilePool == {FULL_FBX, ZIP_PATH, "notes.txt"}

Range(s) == {s[i] : i \in DOMAIN s}

PreCollections(walk, aero, rest) ==
    LET present == {n \in Range(CollectionNames) :
                      CASE n = "Cameras_Walkthrough" -> walk # "absent"
                        [] n = "Cameras_Aerial" -> aero # "absent"
                        [] OTHER -> rest # "absent"}
    IN  [n \in present |->
            CASE n = "Cameras_Walkthrough" -> walk
              [] n = "Cameras_Aerial" -> aero
              [] OTHER -> rest]

----------------------------------------------------------------------------
(* The order of the statements of one run: __main__ calls build_scene,     *)
(* then export_fbx_and_zip, then prints.                                   *)

OrderZipBeforeReadme ==
    <<"render", "collections", "materials", "world", "walk_path", "aero_path",
      "cam_walk", "cam_aero", "follow_walk", "animate_walk", "follow_aero",
      "animate_aero", "set_camera", "marker_walk", "marker_aero", "print_built",
      "ensure_dir", "select_all", "export_fbx", "zip_open", "zip_fbx",
      "zip_readme", "open_readme", "write_readme", "print_export",
      "print_done", "done">>

Order ==
    <<"render", "collections", "materials", "world", "walk_path", "aero_path",
      "cam_walk", "cam_aero", "follow_walk", "animate_walk", "follow_aero",
      "animate_aero", "set_camera", "marker_walk", "marker_aero", "print_built",
      "ensure_dir", "select_all", "export_fbx", "open_readme", "write_readme",
      "zip_open", "zip_fbx", "zip_readme", "print_export", "print_done",
      "done">>

IndexOf(p) == CHOOSE i \in DOMAIN Order : Order[i] = p

NextPc(p) == Order[IndexOf(p) + 1]

\* an exception raised by a statement is caught nowhere: the run ends there
OnErrorPrintDone(p) == "print_done"

OnError(p) == "failed"

----------------------------------------------------------------------------
(* Helpers of Section A.                                                   *)

\* ensure_collection(name, root): an existing collection is returned as it
\* is; a new one is created and linked under the scene's root collection
ensure_collection(cols, name) ==
    IF name \in DOMAIN cols
    THEN cols
    ELSE [n \in DOMAIN cols \cup {name} |->
            IF n = name THEN "linked" ELSE cols[n]]

RECURSIVE EnsureAll(_, _, _)
EnsureAll(cols, names, i) ==
    IF i > Len(names) THEN cols
    ELSE EnsureAll(ensure_collection(cols, names[i]), names, i + 1)

\* bpy.data.objects.new(name, data): the host gives the object the name
\* asked for, or that name with a numeric suffix when it is taken
UniqueName(name, taken) ==
    IF name \notin taken THEN name
    ELSE IF (name \o ".001") \notin taken THEN name \o ".001"
    ELSE name \o ".002"

ObjectNames(objs) == {o.name : o \in objs}

NewObject(name, type, col) ==
    [name |-> UniqueName(name, ObjectNames(objects)), type |-> type,
     col |-> col, hide |-> FALSE]

\* new_cube / new_plane, lines 41-57: a primitive mesh linked into col.  No
\* statement of the script calls either.
new_cube(name, col) == NewObject(name, "MESH", col)

new_plane(name, col) == NewObject(name, "MESH", col)

ObjectNamed(n) == CHOOSE o \in objects : o.name = n

\* the view layer holds an object when its collection is part of the scene
InViewLayer(o) ==
    \/ o.col = "Scene"
    \/ o.col \in DOMAIN collections /\ collections[o.col] \in {"linked", "hidden"}

\* bpy.ops.object.select_all(action='SELECT') selects the objects the view
\* layer shows; an object hidden in the viewport, or in a hidden or
\* unlinked collection, is not selected
Visible(o) ==
    /\ ~o.hide
    /\ \/ o.col = "Scene"
       \/ o.col \in DOMAIN collections /\ collections[o.col] = "linked"

SelectAll == ObjectNames({o \in objects : Visible(o)})

FollowPathConstraint(cam, curve) ==
    [owner |-> cam, type |-> "FOLLOW_PATH", target |-> curve]

----------------------------------------------------------------------------
Init ==
    /\ pc = Order[1]
    /\ \E walk \in PreCollectionStates, aero \in PreCollectionStates,
          rest \in {"absent", "linked"}, objs \in PreObjectSets,
          data \in BOOLEAN, d \in {"absent", "dir", "file"},
          fs \in SUBSET PreFilePool :
          /\ d # "dir" => fs = {}
          /\ pre = [collections |-> PreCollections(walk, aero, rest),
                    objects |-> objs, data |-> data, dir |-> d, files |-> fs]
    /\ collections = pre.collections
    /\ objects = pre.objects
    /\ created = {}
    /\ materials = IF pre.data THEN {"Wall_Paint"} ELSE {}
    /\ worlds = IF pre.data THEN {"World"} ELSE {}
    /\ sceneWorld = IF pre.data THEN "World" ELSE "none"
    /\ constraints = <<>>
    /\ pathDuration = <<>>
    /\ animated = {}
    /\ active = "none"
    /\ sceneCamera = IF "Camera" \in ObjectNames(pre.objects) THEN "Camera" ELSE "none"
    /\ selected = {}
    /\ markers = <<>>
    /\ render = [fps |-> 24, frame_end |-> 250, engine |-> "BLENDER_EEVEE",
                 motion_blur |-> FALSE]
    /\ loc = [walk_curve |-> "none", aero_curve |-> "none",
              cam_walk |-> "none", cam_aero |-> "none"]
    /\ dirState = pre.dir
    /\ files = pre.files
    /\ zipEntries = IF ZIP_PATH \in pre.files THEN {FULL_FBX, README_PATH} ELSE {}
    /\ fbxContent = {}
    /\ readmeLists = {}
    /\ written = {}
    /\ out = <<>>
    /\ log = <<>>

----------------------------------------------------------------------------
(* Section A: build_scene, statement by statement.                         *)

Goto(p) == pc' = NextPc(p)

Raise(p) == pc' = OnError(p)

\* lines 102-123: render, colour, frame range, engine
Render ==
    /\ pc = "render"
    /\ render' = [fps |-> Fps, frame_end |-> FrameEnd, engine |-> "CYCLES",
                  motion_blur |-> TRUE]
    /\ Goto("render")
    /\ UNCHANGED <<pre, collections, objects, created, materials, worlds,
                   sceneWorld, constraints, pathDuration, animated, active,
                   sceneCamera, selected, markers, loc, diskVars, out, log>>

\* lines 124-133: the nine collections
Collections ==
    /\ pc = "collections"
    /\ collections' = EnsureAll(collections, CollectionNames, 1)
    /\ Goto("collections")
    /\ UNCHANGED <<pre, objects, created, materials, worlds, sceneWorld,
                   constraints, pathDuration, animated, active, sceneCamera,
                   selected, markers, render, loc, diskVars, out, log>>

\* lines 136-141: make_basic_material gets or creates each material
Materials ==
    /\ pc = "materials"
    /\ materials' = materials \cup MaterialNames
    /\ Goto("materials")
    /\ UNCHANGED <<pre, collections, objects, created, worlds, sceneWorld,
                   constraints, pathDuration, animated, active, sceneCamera,
                   selected, markers, render, loc, diskVars, out, log>>

\* lines 143-145: the plot, floors, balconies, facade, stair core, furniture
\* and trees are a comment; no statement creates them

\* lines 148-155: the world and its sky nodes
World ==
    /\ pc = "world"
    /\ worlds' = worlds \cup {"World"}
    /\ sceneWorld' = "World"
    /\ Goto("world")
    /\ UNCHANGED <<pre, collections, objects, created, materials, constraints,
                   pathDuration, animated, active, sceneCamera, selected,
                   markers, render, loc, diskVars, out, log>>

\* add_bezier_path / add_camera: a new object linked into collection col
AddObject(p, name, type, col, local) ==
    /\ pc = p
    /\ LET o == NewObject(name, type, col) IN
         /\ objects' = objects \cup {o}
         /\ created' = created \cup {o.name}
         /\ loc' = [loc EXCEPT ![local] = o.name]
    /\ Goto(p)
    /\ UNCHANGED <<pre, collections, materials, worlds, sceneWorld, constraints,
                   pathDuration, animated, active, sceneCamera, selected,
                   markers, render, diskVars, out, log>>

\* lines 158-167
WalkPath == AddObject("walk_path", "Walkthrough_Path", "CURVE",
                      "Cameras_Walkthrough", "walk_curve")

\* lines 169-179
AeroPath == AddObject("aero_path", "Aerial_Spin_Path", "CURVE",
                      "Cameras_Aerial", "aero_curve")

\* line 188
CamWalk == AddObject("cam_walk", "Camera_Walkthrough", "CAMERA",
                     "Cameras_Walkthrough", "cam_walk")

\* line 189
CamAero == AddObject("cam_aero", "Camera_Aerial", "CAMERA",
                     "Cameras_Aerial", "cam_aero")

\* follow_path, lines 192-195: the constraint, the path's duration, and the
\* camera made the view layer's active object, which the host refuses for
\* an object the view layer does not hold
FollowPath(p, cam, curve, frames) ==
    /\ pc = p
    /\ constraints' = Append(constraints, FollowPathConstraint(cam, curve))
    /\ pathDuration' = [c \in DOMAIN pathDuration \cup {curve} |->
                          IF c = curve THEN frames ELSE pathDuration[c]]
    /\ IF InViewLayer(ObjectNamed(cam))
       THEN active' = cam /\ Goto(p)
       ELSE active' = active /\ Raise(p)
    /\ UNCHANGED <<pre, collections, objects, created, materials, worlds,
                   sceneWorld, animated, sceneCamera, selected, markers,
                   render, loc, diskVars, out, log>>

\* follow_path, line 196: the operator keys the constraint of the active object
Animate(p) ==
    /\ pc = p
    /\ animated' = animated \cup {active}
    /\ Goto(p)
    /\ UNCHANGED <<pre, collections, objects, created, materials, worlds,
                   sceneWorld, constraints, pathDuration, active, sceneCamera,
                   selected, markers, render, loc, diskVars, out, log>>

\* line 198
FollowWalk == FollowPath("follow_walk", loc.cam_walk, loc.walk_curve, WalkFrames)

AnimateWalk == Animate("animate_walk")

\* line 199
FollowAero == FollowPath("follow_aero", loc.cam_aero, loc.aero_curve, AeroFrames)

AnimateAero == Animate("animate_aero")

set_active_cameraLast(cam) == active

\* line 72: scene.camera = cam_obj
set_active_camera(cam) == cam

\* line 200
SetCamera ==
    /\ pc = "set_camera"
    /\ sceneCamera' = set_active_camera(loc.cam_walk)
    /\ Goto("set_camera")
    /\ UNCHANGED <<pre, collections, objects, created, materials, worlds,
                   sceneWorld, constraints, pathDuration, animated, active,
                   selected, markers, render, loc, diskVars, out, log>>

\* lines 203-204: a marker is added and the last marker named, at frame 0
Marker(p, name) ==
    /\ pc = p
    /\ markers' = Append(markers, [name |-> name, frame |-> 0])
    /\ Goto(p)
    /\ UNCHANGED <<pre, collections, objects, created, materials, worlds,
                   sceneWorld, constraints, pathDuration, animated, active,
                   sceneCamera, selected, render, loc, diskVars, out, log>>

MarkerWalk == Marker("marker_walk", "Walkthrough")

MarkerAero == Marker("marker_aero", "Aerial Spin")

\* line 206, and build_scene returns
PrintBuilt ==
    /\ pc = "print_built"
    /\ out' = Append(out, MSG_BUILT)
    /\ log' = Append(log, "build_scene")
    /\ Goto("print_built")
    /\ UNCHANGED <<pre, sceneVars, diskVars>>

----------------------------------------------------------------------------
(* Section B: export_fbx_and_zip, statement by statement.                  *)

ensure_dirRecreate(state, fs) ==
    IF state = "file" THEN [ok |-> FALSE, state |-> state, files |-> fs]
    ELSE [ok |-> TRUE, state |-> "dir", files |-> {}]

\* lines 219-220: os.makedirs runs only when the path is no directory; it
\* creates an empty one, and raises when the path is a file
ensure_dir(state, fs) ==
    IF state = "dir" THEN [ok |-> TRUE, state |-> state, files |-> fs]
    ELSE IF state = "absent" THEN [ok |-> TRUE, state |-> "dir", files |-> {}]
    ELSE [ok |-> FALSE, state |-> state, files |-> fs]

\* line 222
EnsureDir ==
    /\ pc = "ensure_dir"
    /\ LET r == ensure_dir(dirState, files) IN
         /\ dirState' = r.state
         /\ files' = r.files
         /\ zipEntries' = IF ZIP_PATH \in r.files THEN zipEntries ELSE {}
         /\ IF r.ok THEN Goto("ensure_dir") ELSE Raise("ensure_dir")
    /\ log' = Append(log, "ensure_dir")
    /\ UNCHANGED <<pre, sceneVars, fbxContent, readmeLists, written, out>>

\* line 225
SelectAllObjects ==
    /\ pc = "select_all"
    /\ selected' = SelectAll
    /\ Goto("select_all")
    /\ UNCHANGED <<pre, collections, objects, created, materials, worlds,
                   sceneWorld, constraints, pathDuration, animated, active,
                   sceneCamera, markers, render, loc, diskVars, out, log>>

\* a file is created in the export directory, which must exist
CanCreateFile == dirState = "dir"

\* line 226: the exporter writes the selected objects (use_selection=True)
ExportFbx ==
    /\ pc = "export_fbx"
    /\ IF CanCreateFile
       THEN /\ files' = files \cup {FULL_FBX}
            /\ fbxContent' = selected
            /\ written' = written \cup {FULL_FBX}
            /\ log' = Append(log, "export_fbx")
            /\ Goto("export_fbx")
       ELSE /\ UNCHANGED <<files, fbxContent, written, log>>
            /\ Raise("export_fbx")
    /\ UNCHANGED <<pre, sceneVars, dirState, zipEntries, readmeLists, out>>

\* line 229: open(README_PATH, "w") creates or empties the file
OpenReadme ==
    /\ pc = "open_readme"
    /\ IF CanCreateFile
       THEN /\ files' = files \cup {README_PATH}
            /\ readmeLists' = {}
            /\ written' = written \cup {README_PATH}
            /\ log' = Append(log, "write_readme")
            /\ Goto("open_readme")
       ELSE /\ UNCHANGED <<files, readmeLists, written, log>>
            /\ Raise("open_readme")
    /\ UNCHANGED <<pre, sceneVars, dirState, zipEntries, fbxContent, out>>

\* lines 230-231: the text names the FULL and the LITE file
WriteReadme ==
    /\ pc = "write_readme"
    /\ readmeLists' = {FULL_FBX, LITE_FBX}
    /\ Goto("write_readme")
    /\ UNCHANGED <<pre, sceneVars, dirState, files, zipEntries, fbxContent,
                   written, out, log>>

\* line 233: ZipFile(ZIP_PATH, "w") creates or empties the archive
ZipOpen ==
    /\ pc = "zip_open"
    /\ IF CanCreateFile
       THEN /\ files' = files \cup {ZIP_PATH}
            /\ zipEntries' = {}
            /\ written' = written \cup {ZIP_PATH}
            /\ log' = Append(log, "zip")
            /\ Goto("zip_open")
       ELSE /\ UNCHANGED <<files, zipEntries, written, log>>
            /\ Raise("zip_open")
    /\ UNCHANGED <<pre, sceneVars, dirState, fbxContent, readmeLists, out>>

\* z.write(path, arcname=basename(path)): the file must exist
ZipWrite(p, name) ==
    /\ pc = p
    /\ IF name \in files
       THEN zipEntries' = zipEntries \cup {name} /\ Goto(p)
       ELSE zipEntries' = zipEntries /\ Raise(p)
    /\ UNCHANGED <<pre, sceneVars, dirState, files, fbxContent, readmeLists,
                   written, out, log>>

\* line 234
ZipFbx == ZipWrite("zip_fbx", FULL_FBX)

\* line 235
ZipReadme == ZipWrite("zip_readme", README_PATH)

\* line 237
PrintExport ==
    /\ pc = "print_export"
    /\ out' = Append(out, MSG_EXPORT)
    /\ Goto("print_export")
    /\ UNCHANGED <<pre, sceneVars, diskVars, log>>

\* line 245
PrintDone ==
    /\ pc = "print_done"
    /\ out' = Append(out, MSG_DONE)
    /\ Goto("print_done")
    /\ UNCHANGED <<pre, sceneVars, diskVars, log>>

\* the statements that call into the host or the file system, any of which
\* may raise (an operator whose context is wrong, a full disk, a file in use)
MayRaise ==
    {"render", "collections", "materials", "world", "walk_path", "aero_path",
     "cam_walk", "cam_aero", "follow_walk", "animate_walk", "follow_aero",
     "animate_aero", "marker_walk", "marker_aero", "ensure_dir", "select_all",
     "export_fbx", "open_readme", "write_readme", "zip_open", "zip_fbx",
     "zip_readme"}

\* a statement raises before it has changed anything
Fail ==
    /\ pc \in MayRaise
    /\ Raise(pc)
    /\ UNCHANGED <<pre, sceneVars, diskVars, out, log>>

Next ==
    \/ Render \/ Collections \/ Materials \/ World
    \/ WalkPath \/ AeroPath \/ CamWalk \/ CamAero
    \/ FollowWalk \/ AnimateWalk \/ FollowAero \/ AnimateAero
    \/ SetCamera \/ MarkerWalk \/ MarkerAero \/ PrintBuilt
    \/ EnsureDir \/ SelectAllObjects \/ ExportFbx \/ OpenReadme \/ WriteReadme
    \/ ZipOpen \/ ZipFbx \/ ZipReadme \/ PrintExport \/ PrintDone
    \/ Fail

Spec == Init /\ [][Next]_vars

----------------------------------------------------------------------------
(* The claims.                                                             *)

BuildFinished == "build_scene" \in Range(log)

Count(seq, x) == Cardinality({i \in DOMAIN seq : seq[i] = x})

Cameras == {o \in objects : o.type = "CAMERA"}

FollowPathsOf(cam) ==
    {i \in DOMAIN constraints :
        constraints[i].owner = cam /\ constraints[i].type = "FOLLOW_PATH"}

\* C1: after a complete run the archive holds Duplex_House.fbx,
\* Duplex_House_Lite.fbx and README_Import.txt.
C1_ArchiveHoldsAllDeliverables ==
    pc = "done" => {FULL_FBX, LITE_FBX, README_PATH} \subseteq zipEntries

MainSteps == <<"build_scene", "ensure_dir", "export_fbx", "write_readme", "zip">>

\* C2: the steps of a run happen in the order build_scene, ensure the
\* export directory, FBX export, README write, zip creation, each at most
\* once; the zip is written only once this run has written the FBX file and
\* the README, and both exist.
C2_FixedOrder ==
    /\ Len(log) <= Len(MainSteps)
    /\ \A i \in DOMAIN log : log[i] = MainSteps[i]
    /\ ZIP_PATH \in written =>
          /\ {FULL_FBX, README_PATH} \subseteq written
          /\ {FULL_FBX, README_PATH} \subseteq files

C2_Witness ==
    pc = "done" /\ log = MainSteps /\ ZIP_PATH \in written

\* C3: a file is written into the export directory only when the directory
\* exists; ensure_dir leaves an existing directory and its contents as they
\* are, and creates the directory when it is absent.
C3_EnsureDir ==
    [][ /\ written' # written => dirState = "dir" /\ dirState' = "dir"
        /\ pc = "ensure_dir" /\ dirState = "dir" =>
              dirState' = "dir" /\ files' = files /\ zipEntries' = zipEntries
        /\ pc = "ensure_dir" /\ dirState = "absent" /\ pc' # "failed" =>
              dirState' = "dir" ]_vars

C3_Witness ==
    /\ pc = "done"
    /\ pre.dir = "dir"
    /\ "notes.txt" \in pre.files
    /\ "notes.txt" \in files
    /\ {FULL_FBX, README_PATH, ZIP_PATH} \subseteq written

\* C4: a failed step ends the run: nothing runs after it, neither the
\* 'Export complete' nor the 'Done' message is printed, and what the run had
\* created or written stays; 'Done' is printed only when build_scene has
\* finished and the zip was written with the FBX and the README entry.
C4_NoRecovery ==
    /\ [](pc = "failed" =>
            MSG_EXPORT \notin Range(out) /\ MSG_DONE \notin Range(out))
    /\ [](MSG_DONE \in Range(out) =>
            /\ BuildFinished
            /\ ZIP_PATH \in written
            /\ {FULL_FBX, README_PATH} \subseteq zipEntries)
    /\ [][ /\ pc = "failed" => UNCHANGED vars
           /\ pc' = "failed" =>
                 /\ written' = written
                 /\ written \subseteq files'
                 /\ dirState' = dirState
                 /\ zipEntries' = zipEntries
                 /\ fbxContent' = fbxContent
                 /\ objects \subseteq objects'
                 /\ out' = out ]_vars

C4_Witness ==
    /\ pc = "failed"
    /\ {FULL_FBX, README_PATH, ZIP_PATH} \subseteq written
    /\ {FULL_FBX, README_PATH, ZIP_PATH} \subseteq files
    /\ zipEntries = {FULL_FBX}

\* C5: once build_scene has finished, it has created at least one mesh
\* object in a floor, facade, furniture or landscape collection.
C5_GeometryBuilt ==
    BuildFinished =>
        \E o \in objects :
            o.name \in created /\ o.type = "MESH" /\ o.col \in GeometryCollections

\* C6: the exporter is called once in a run, every object of the scene is
\* selected when it is called, and the FULL FBX holds every object
\* build_scene created.
C6_ExportsEveryObject ==
    /\ Count(log, "export_fbx") <= 1
    /\ pc = "done" => Count(log, "export_fbx") = 1
    /\ pc = "export_fbx" =>
          ObjectNames({o \in objects : InViewLayer(o)}) \subseteq selected
    /\ FULL_FBX \in written => created \subseteq fbxContent

CameraSetup ==
    /\ ObjectNames(Cameras) = {"Camera_Walkthrough", "Camera_Aerial"}
    /\ Cardinality(Cameras) = 2
    /\ ObjectNamed("Camera_Walkthrough").col = "Cameras_Walkthrough"
    /\ ObjectNamed("Camera_Aerial").col = "Cameras_Aerial"
    /\ Cardinality(FollowPathsOf("Camera_Walkthrough")) = 1
    /\ Cardinality(FollowPathsOf("Camera_Aerial")) = 1
    /\ \A i \in FollowPathsOf("Camera_Walkthrough") :
          constraints[i].target = "Walkthrough_Path"
    /\ \A i \in FollowPathsOf("Camera_Aerial") :
          constraints[i].target = "Aerial_Spin_Path"
    /\ "Walkthrough_Path" \in DOMAIN pathDuration
    /\ pathDuration["Walkthrough_Path"] = WalkFrames
    /\ "Aerial_Spin_Path" \in DOMAIN pathDuration
    /\ pathDuration["Aerial_Spin_Path"] = AeroFrames
    /\ sceneCamera = "Camera_Walkthrough"
    /\ active = "Camera_Aerial"

\* C7 as stated: after build_scene exactly two cameras exist,
\* Camera_Walkthrough and Camera_Aerial in their collections, each with one
\* follow-path constraint on its own path (600 and 450 frames); the scene
\* camera is the walkthrough camera, the active object the aerial camera.
C7_ExactlyTwoCameras == BuildFinished => CameraSetup

ScriptObjectNames ==
    {"Camera_Walkthrough", "Camera_Aerial", "Walkthrough_Path", "Aerial_Spin_Path"}

NoCameraBefore ==
    /\ \A o \in pre.objects : o.type # "CAMERA"
    /\ ObjectNames(pre.objects) \cap ScriptObjectNames = {}

\* C7 amended: the same, for a file that held no camera and no object of
\* the script's four object names before the run.
C7_TwoCamerasAdded == BuildFinished /\ NoCameraBefore => CameraSetup

C7_Witness ==
    /\ BuildFinished
    /\ NoCameraBefore
    /\ pre.objects # {}
    /\ CameraSetup

====
